---- MODULE Spec2Model ----
(***************************************************************************)
(* Model of src/SMS.py: Person / Student / Instructor / Course /           *)
(* Enrollment records and the StudentManagementSystem registry.            *)
(*                                                                         *)
(* Python objects are modelled by their identity (a string naming the      *)
(* object); no class defines __eq__ or __hash__, so `in`, list.remove and  *)
(* dict keys all compare by identity.  One action models one call of a     *)
(* public method by the caller; `last` records that call (method,          *)
(* arguments, raised condition, returned value).                           *)
(***************************************************************************)
EXTENDS Integers, Sequences, FiniteSets, TLC

\* ------------------------------------------------------------------ bounds
\* Number of calls the caller makes in one run.
MaxOps == 3
\* Number of Enrollment objects the caller constructs directly and keeps.
MaxHeld == 2

\* ------------------------------------------------------- values and objects
None == "None"

\* Conditions a call can end with.  The three ValueErrors of the source are
\* told apart by their message, as the specification names them.
NotFound == "NotFound"
DuplicateEnrollment == "DuplicateEnrollment"
InvalidGrade == "InvalidGrade"
NameError == "NameError"

\* The objects the caller has constructed.  st1 and st3 carry the same ID:
\* the constructors check nothing.
StudentObjs == {"st1", "st2", "st3"}
InstructorObjs == {"in1"}
CourseObjs == {"co1", "co2"}

\* Person.id_number and Course.course_id: set by the constructor, assigned
\* nowhere else.
id_number == [st1 |-> "S1", st2 |-> "S2", st3 |-> "S1", in1 |-> "I1"]
course_id == [co1 |-> "C1", co2 |-> "C2"]

\* Arguments the caller passes.
StudentIdArgs == {"S1", "S2"}
InstructorIdArgs == {"I1", "I2"}
CourseIdArgs == {"C1", "C2"}
NameArgs == {None, "Bob"}
MajorArgs == {None, "Math"}
DepartmentArgs == {None, "Physics"}
CourseNameArgs == {None, "Algorithms"}
GradeArgs == {"A", "F", "Z"}
GradeInitArgs == {None, "A"}

\* Mutant of grade_system: the last grade is missing.
grade_system_short == <<"A", "B", "C", "D", "E">>

grade_system == <<"A", "B", "C", "D", "E", "F">>

VARIABLES
    name,               \* Person.name, per Student / Instructor object
    major,              \* Student.major
    department,         \* Instructor.department
    st_courses,         \* Student.courses: per Student, a dict Course -> grade
    course_name,        \* Course.course_name
    enrolled_students,  \* Course.enrolled_students: per Course, a list of Students
    enrollment_objs,    \* the live Enrollment objects, in order of construction
    students,           \* StudentManagementSystem.students
    instructors,        \* StudentManagementSystem.instructors
    courses,            \* StudentManagementSystem.courses
    enrollments,        \* StudentManagementSystem.enrollments (indices into enrollment_objs)
    ops,                \* number of calls made so far
    last                \* the last call: [op, args, err, ret]

\* The fields of the Person / Student / Instructor / Course objects.
fields == <<name, major, department, st_courses, course_name, enrolled_students>>
\* The four collections of the StudentManagementSystem.
registry == <<students, instructors, courses, enrollments>>
\* The whole program state.
heap == <<fields, enrollment_objs, registry>>
vars == <<heap, ops, last>>

\* ------------------------------------------------------------ list helpers
Range(s) == {s[i] : i \in 1..Len(s)}

Min(S) == CHOOSE x \in S : \A y \in S : x <= y

\* s without its i-th element.
RemoveAt(s, i) == [j \in 1..(Len(s) - 1) |-> IF j < i THEN s[j] ELSE s[j + 1]]

\* Python list.remove(x) for an x that is in the list: the first occurrence goes.
ListRemove(s, x) == RemoveAt(s, Min({i \in 1..Len(s) : s[i] = x}))

\* Number of occurrences of x in s.
Count(s, x) == Cardinality({i \in 1..Len(s) : s[i] = x})

\* dict[k] = v
DictSet(d, k, v) == [x \in (DOMAIN d) \cup {k} |-> IF x = k THEN v ELSE d[x]]

\* The empty dict.
EmptyDict == [x \in {} |-> None]

\* --------------------------------------------------------------- the call
\* A call returns (err = None) or raises (err names the condition).
Call(op, args, err, ret) ==
    /\ ops < MaxOps
    /\ ops' = ops + 1
    /\ last' = [op |-> op, args |-> args, err |-> err, ret |-> ret]

Init ==
    /\ name = [o \in StudentObjs \cup InstructorObjs |-> "Ada"]
    /\ major = [o \in StudentObjs |-> "CS"]
    /\ department = [o \in InstructorObjs |-> "Maths"]
    /\ st_courses = [o \in StudentObjs |-> EmptyDict]
    /\ course_name = [co1 |-> "Algorithms", co2 |-> "Databases"]
    /\ enrolled_students = [o \in CourseObjs |-> <<>>]
    /\ enrollment_objs = <<>>
    /\ students = <<>>
    /\ instructors = <<>>
    /\ courses = <<>>
    /\ enrollments = <<>>
    /\ ops = 0
    /\ last = [op |-> "init", args |-> <<>>, err |-> None, ret |-> None]

\* Mutant of add_course: the guard compares the ID with the Student object.
add_course_id_vs_object(self, enrol) ==
    IF id_number[self] = enrol.student
    THEN DictSet(st_courses[self], enrol.course, enrol.grade)
    ELSE st_courses[self]

\* ------------------------------------------------- Student.add_course
\* The Student's courses dict after self.add_course(enrol).
add_course(self, enrol) ==
    IF id_number[self] = id_number[enrol.student]
    THEN DictSet(st_courses[self], enrol.course, enrol.grade)
    ELSE st_courses[self]

\* Mutant of enrollment: the Student is inserted at the front of the list.
enrollment_at_front(self, enrol) ==
    IF course_name[self] = course_name[enrol.course]
    THEN <<enrol.student>> \o enrolled_students[self]
    ELSE enrolled_students[self]

\* ------------------------------------------------- Course.enrollment
\* The Course's enrolled_students after self.enrollment(enrol).
enrollment(self, enrol) ==
    IF course_name[self] = course_name[enrol.course]
    THEN Append(enrolled_students[self], enrol.student)
    ELSE enrolled_students[self]

\* ------------------------------------------------- Enrollment.__init__
\* Enrollment(student, course, grade): the two writes of the constructor.
Enrollment_init(student, course, grade) ==
    LET self == [student |-> student, course |-> course, grade |-> grade]
    IN  /\ enrolled_students' =
               [enrolled_students EXCEPT ![course] = enrollment(course, self)]
        /\ st_courses' = [st_courses EXCEPT ![student] = add_course(student, self)]

\* The caller constructs an Enrollment and keeps the object.
Enrollment_new(student, course, grade) ==
    /\ Len(enrollment_objs) < MaxHeld
    /\ Enrollment_init(student, course, grade)
    /\ enrollment_objs' =
           Append(enrollment_objs, [student |-> student, course |-> course, grade |-> grade])
    /\ UNCHANGED <<name, major, department, course_name, registry>>
    /\ Call("Enrollment", <<student, course, grade>>, None, Len(enrollment_objs) + 1)

\* ------------------------------------------------- Enrollment.assign_grade
\* self is the index of a live Enrollment object.
Enrollment_assign_grade_effect(self, grade) ==
    IF grade \in Range(grade_system)
    THEN /\ enrollment_objs' = [enrollment_objs EXCEPT ![self].grade = grade]
         /\ st_courses' =
                [st_courses EXCEPT ![enrollment_objs[self].student] =
                    DictSet(@, enrollment_objs[self].course, grade)]
    ELSE UNCHANGED <<enrollment_objs, st_courses>>

\* The condition self.assign_grade(grade) ends with.
Enrollment_assign_grade_err(grade) ==
    IF grade \in Range(grade_system) THEN None ELSE InvalidGrade

Enrollment_assign_grade(self, grade) ==
    /\ Enrollment_assign_grade_effect(self, grade)
    /\ UNCHANGED <<name, major, department, course_name, enrolled_students, registry>>
    /\ Call("Enrollment.assign_grade", <<self, grade>>, Enrollment_assign_grade_err(grade), None)

\* ------------------------------------------------- Course
\* The first Student of the list lst with the given ID, or None.
find_enrolled_student(lst, student_id) ==
    LET hits == {i \in 1..Len(lst) : id_number[lst[i]] = student_id}
    IN  IF hits = {} THEN None ELSE lst[Min(hits)]

\* Mutant of remove_student_from: every entry with the ID is removed.
remove_student_from_all(lst, student_id) ==
    SelectSeq(lst, LAMBDA x : id_number[x] # student_id)

\* The list lst after remove_student(student_id).
remove_student_from(lst, student_id) ==
    LET std_enrolled == find_enrolled_student(lst, student_id)
    IN  IF std_enrolled # None THEN ListRemove(lst, std_enrolled) ELSE lst

\* Mutant of already_enrolled: the registry's students are searched instead.
already_enrolled_in_registry(self, student) == student \in Range(students)

\* Whether add_student(student) raises: the student is in the list already.
already_enrolled(self, student) == student \in Range(enrolled_students[self])

Course_add_student(self, student) ==
    IF already_enrolled(self, student)
    THEN /\ UNCHANGED heap
         /\ Call("Course.add_student", <<self, student>>, DuplicateEnrollment, None)
    ELSE \* the Enrollment constructed here is referenced by nothing afterwards
         /\ Enrollment_init(student, self, None)
         /\ UNCHANGED <<name, major, department, course_name, enrollment_objs, registry>>
         /\ Call("Course.add_student", <<self, student>>, None, None)

Course_find_enrolled_student(self, student_id) ==
    /\ UNCHANGED heap
    /\ Call("Course.find_enrolled_student", <<self, student_id>>, None,
            find_enrolled_student(enrolled_students[self], student_id))

Course_remove_student(self, student_id) ==
    /\ enrolled_students' =
           [enrolled_students EXCEPT ![self] = remove_student_from(@, student_id)]
    /\ UNCHANGED <<name, major, department, st_courses, course_name, enrollment_objs, registry>>
    /\ Call("Course.remove_student", <<self, student_id>>, None, None)

\* ------------------------------------------------- StudentManagementSystem: find_X
\* Mutant of find_student: the scan compares the name with the ID.
find_student_by_name(student_id) ==
    LET hits == {i \in 1..Len(students) : name[students[i]] = student_id}
    IN  IF hits = {} THEN NotFound ELSE students[Min(hits)]

\* find_X returns the first object of the collection with the ID, or raises;
\* the raise is modelled by the value NotFound.
find_student(student_id) ==
    LET hits == {i \in 1..Len(students) : id_number[students[i]] = student_id}
    IN  IF hits = {} THEN NotFound ELSE students[Min(hits)]

find_instructor(instructor_id) ==
    LET hits == {i \in 1..Len(instructors) : id_number[instructors[i]] = instructor_id}
    IN  IF hits = {} THEN NotFound ELSE instructors[Min(hits)]

find_course(crs_id) ==
    LET hits == {i \in 1..Len(courses) : course_id[courses[i]] = crs_id}
    IN  IF hits = {} THEN NotFound ELSE courses[Min(hits)]

\* The index of the first recorded Enrollment with both IDs, or NotFound.
find_enrollment(crs_id, student_id) ==
    LET hits == {i \in 1..Len(enrollments) :
                    /\ id_number[enrollment_objs[enrollments[i]].student] = student_id
                    /\ course_id[enrollment_objs[enrollments[i]].course] = crs_id}
    IN  IF hits = {} THEN NotFound ELSE enrollments[Min(hits)]

\* The condition a call built on a find ends with, given what the find gave.
err_of(found) == IF found = NotFound THEN NotFound ELSE None

\* Mutant of add_to: the object is appended without the membership test.
add_to_always(lst, x) == Append(lst, x)

\* ------------------------------------------------- StudentManagementSystem: students
\* The collection lst after add_X(x).
add_to(lst, x) == IF x \notin Range(lst) THEN Append(lst, x) ELSE lst

SMS_add_student(student) ==
    /\ students' = add_to(students, student)
    /\ UNCHANGED <<fields, enrollment_objs, instructors, courses, enrollments>>
    /\ Call("add_student", <<student>>, None, None)

SMS_find_student(student_id) ==
    /\ UNCHANGED heap
    /\ Call("find_student", <<student_id>>, err_of(find_student(student_id)),
            find_student(student_id))

\* Mutant of SMS_remove_student: the removal cascades to the Courses' lists.
SMS_remove_student_cascade(student_id) ==
    LET std == find_student(student_id)
    IN  /\ students' = IF std = NotFound THEN students ELSE ListRemove(students, std)
        /\ enrolled_students' =
               [c \in CourseObjs |-> SelectSeq(enrolled_students[c], LAMBDA x : x # std)]
        /\ UNCHANGED <<name, major, department, st_courses, course_name,
                       enrollment_objs, instructors, courses, enrollments>>
        /\ Call("remove_student", <<student_id>>, err_of(std), None)

SMS_remove_student(student_id) ==
    LET std == find_student(student_id)
    IN  /\ students' = IF std = NotFound THEN students ELSE ListRemove(students, std)
        /\ UNCHANGED <<fields, enrollment_objs, instructors, courses, enrollments>>
        /\ Call("remove_student", <<student_id>>, err_of(std), None)

SMS_update_student(student_id, new_name, new_major) ==
    LET student_found == find_student(student_id)
    IN  /\ name' = IF student_found # NotFound /\ new_name # None
                   THEN [name EXCEPT ![student_found] = new_name] ELSE name
        /\ major' = IF student_found # NotFound /\ new_major # None
                    THEN [major EXCEPT ![student_found] = new_major] ELSE major
        /\ UNCHANGED <<department, st_courses, course_name, enrolled_students,
                       enrollment_objs, registry>>
        /\ Call("update_student", <<student_id, new_name, new_major>>,
                err_of(student_found), None)

\* ------------------------------------------------- StudentManagementSystem: instructors
SMS_add_instructor(instructor) ==
    /\ instructors' = add_to(instructors, instructor)
    /\ UNCHANGED <<fields, enrollment_objs, students, courses, enrollments>>
    /\ Call("add_instructor", <<instructor>>, None, None)

SMS_find_instructor(instructor_id) ==
    /\ UNCHANGED heap
    /\ Call("find_instructor", <<instructor_id>>, err_of(find_instructor(instructor_id)),
            find_instructor(instructor_id))

SMS_remove_instructor(instructor_id) ==
    LET inst_obj == find_instructor(instructor_id)
    IN  /\ instructors' = IF inst_obj = NotFound THEN instructors
                          ELSE ListRemove(instructors, inst_obj)
        /\ UNCHANGED <<fields, enrollment_objs, students, courses, enrollments>>
        /\ Call("remove_instructor", <<instructor_id>>, err_of(inst_obj), None)

SMS_update_instructor(instructor_id, new_name, new_department) ==
    LET instructor_found == find_instructor(instructor_id)
    IN  /\ name' = IF instructor_found # NotFound /\ new_name # None
                   THEN [name EXCEPT ![instructor_found] = new_name] ELSE name
        /\ department' = IF instructor_found # NotFound /\ new_department # None
                         THEN [department EXCEPT ![instructor_found] = new_department]
                         ELSE department
        /\ UNCHANGED <<major, st_courses, course_name, enrolled_students,
                       enrollment_objs, registry>>
        /\ Call("update_instructor", <<instructor_id, new_name, new_department>>,
                err_of(instructor_found), None)

\* ------------------------------------------------- StudentManagementSystem: courses
SMS_add_course(course) ==
    /\ courses' = add_to(courses, course)
    /\ UNCHANGED <<fields, enrollment_objs, students, instructors, enrollments>>
    /\ Call("add_course", <<course>>, None, None)

SMS_find_course(crs_id) ==
    /\ UNCHANGED heap
    /\ Call("find_course", <<crs_id>>, err_of(find_course(crs_id)), find_course(crs_id))

SMS_remove_course(crs_id) ==
    LET course_found == find_course(crs_id)
    IN  /\ courses' = IF course_found = NotFound THEN courses
                      ELSE ListRemove(courses, course_found)
        /\ UNCHANGED <<fields, enrollment_objs, students, instructors, enrollments>>
        /\ Call("remove_course", <<crs_id>>, err_of(course_found), None)

SMS_update_course(crs_id, new_course_name) ==
    LET course_found == find_course(crs_id)
    IN  /\ course_name' = IF course_found # NotFound /\ new_course_name # None
                          THEN [course_name EXCEPT ![course_found] = new_course_name]
                          ELSE course_name
        /\ UNCHANGED <<name, major, department, st_courses, enrolled_students,
                       enrollment_objs, registry>>
        /\ Call("update_course", <<crs_id, new_course_name>>, err_of(course_found), None)

\* ------------------------------------------------- StudentManagementSystem: enrollment
\* The names the body of enroll_student can read: its parameters, its locals,
\* and the names bound at module level (the imports and the classes).
enroll_student_names ==
    {"self", "student_id", "course_id", "student_found", "course_found", "enrol_obj",
     "Union", "Optional", "List", "Dict", "Person", "Student", "Instructor", "Course",
     "Enrollment", "StudentManagementSystem"}

\* Line 435 passes the name crs to find_course.  The arguments of a call are
\* evaluated before the call, so an unbound name raises before find_course
\* runs, and lines 436-437 are not reached.  The last branch is the rest of
\* the body, as it would run with the name bound to the course ID.
SMS_enroll_student(student_id, crs_id) ==
    LET student_found == find_student(student_id)
    IN  IF student_found = NotFound
        THEN /\ UNCHANGED heap
             /\ Call("enroll_student", <<student_id, crs_id>>, NotFound, None)
        ELSE IF "crs" \notin enroll_student_names
        THEN /\ UNCHANGED heap
             /\ Call("enroll_student", <<student_id, crs_id>>, NameError, None)
        ELSE LET course_found == find_course(crs_id)
             IN  IF course_found = NotFound
                 THEN /\ UNCHANGED heap
                      /\ Call("enroll_student", <<student_id, crs_id>>, NotFound, None)
                 ELSE /\ Enrollment_init(student_found, course_found, None)
                      /\ enrollment_objs' =
                             Append(enrollment_objs,
                                    [student |-> student_found, course |-> course_found,
                                     grade |-> None])
                      /\ enrollments' = Append(enrollments, Len(enrollment_objs) + 1)
                      /\ UNCHANGED <<name, major, department, course_name,
                                     students, instructors, courses>>
                      /\ Call("enroll_student", <<student_id, crs_id>>, None, None)

SMS_find_enrollment(crs_id, student_id) ==
    /\ UNCHANGED heap
    /\ Call("find_enrollment", <<crs_id, student_id>>,
            err_of(find_enrollment(crs_id, student_id)), find_enrollment(crs_id, student_id))

SMS_assign_grade(crs_id, student_id, grade) ==
    LET enrollment_found == find_enrollment(crs_id, student_id)
    IN  IF enrollment_found = NotFound
        THEN /\ UNCHANGED heap
             /\ Call("assign_grade", <<crs_id, student_id, grade>>, NotFound, None)
        ELSE /\ Enrollment_assign_grade_effect(enrollment_found, grade)
             /\ UNCHANGED <<name, major, department, course_name, enrolled_students, registry>>
             /\ Call("assign_grade", <<crs_id, student_id, grade>>,
                     Enrollment_assign_grade_err(grade), None)

SMS_students_in_course(crs_id) ==
    LET course_found == find_course(crs_id)
    IN  /\ UNCHANGED heap
        /\ Call("students_in_course", <<crs_id>>, err_of(course_found),
                IF course_found = NotFound THEN None ELSE enrolled_students[course_found])

\* The returned list of keys is given as the set of keys.
SMS_student_courses(student_id) ==
    LET student_found == find_student(student_id)
    IN  /\ UNCHANGED heap
        /\ Call("student_courses", <<student_id>>, err_of(student_found),
                IF student_found = NotFound THEN None ELSE DOMAIN st_courses[student_found])

\* ------------------------------------------------- the caller
Next ==
    \/ \E s \in StudentObjs : SMS_add_student(s)
    \/ \E id \in StudentIdArgs : SMS_find_student(id)
    \/ \E id \in StudentIdArgs : SMS_remove_student(id)
    \/ \E id \in StudentIdArgs, n \in NameArgs, m \in MajorArgs : SMS_update_student(id, n, m)
    \/ \E i \in InstructorObjs : SMS_add_instructor(i)
    \/ \E id \in InstructorIdArgs : SMS_find_instructor(id)
    \/ \E id \in InstructorIdArgs : SMS_remove_instructor(id)
    \/ \E id \in InstructorIdArgs, n \in NameArgs, d \in DepartmentArgs :
           SMS_update_instructor(id, n, d)
    \/ \E c \in CourseObjs : SMS_add_course(c)
    \/ \E id \in CourseIdArgs : SMS_find_course(id)
    \/ \E id \in CourseIdArgs : SMS_remove_course(id)
    \/ \E id \in CourseIdArgs, n \in CourseNameArgs : SMS_update_course(id, n)
    \/ \E sid \in StudentIdArgs, cid \in CourseIdArgs : SMS_enroll_student(sid, cid)
    \/ \E cid \in CourseIdArgs, sid \in StudentIdArgs : SMS_find_enrollment(cid, sid)
    \/ \E cid \in CourseIdArgs, sid \in StudentIdArgs, g \in GradeArgs :
           SMS_assign_grade(cid, sid, g)
    \/ \E id \in CourseIdArgs : SMS_students_in_course(id)
    \/ \E id \in StudentIdArgs : SMS_student_courses(id)
    \/ \E c \in CourseObjs, s \in StudentObjs : Course_add_student(c, s)
    \/ \E c \in CourseObjs, id \in StudentIdArgs : Course_find_enrolled_student(c, id)
    \/ \E c \in CourseObjs, id \in StudentIdArgs : Course_remove_student(c, id)
    \/ \E s \in StudentObjs, c \in CourseObjs, g \in GradeInitArgs : Enrollment_new(s, c, g)
    \/ \E e \in 1..Len(enrollment_objs), g \in GradeArgs : Enrollment_assign_grade(e, g)

Spec == Init /\ [][Next]_vars

\* =================================================================== claims
\* The live Enrollment objects the registry does not record: the ones the
\* caller constructed directly.
DirectlyConstructed == {i \in 1..Len(enrollment_objs) : i \notin Range(enrollments)}

\* Whether some entry of the list carries the ID.
HasId(lst, id) == \E i \in 1..Len(lst) : id_number[lst[i]] = id

\* C1: every existing Enrollment e has e.student in e.course.enrolled_students
\* and e.course as a key of e.student.courses.
C1_ViewsAgree ==
    \A i \in 1..Len(enrollment_objs) :
        LET e == enrollment_objs[i]
        IN  /\ e.student \in Range(enrolled_students[e.course])
            /\ e.course \in DOMAIN st_courses[e.student]

\* C2: enroll_student with a student ID and a course ID that both resolve to
\* registered entities returns normally, appends exactly one Enrollment of that
\* student and course to the registry's enrollments, and leaves the student in
\* the course's enrolled_students and the course a key of the student's courses.
C2_EnrollSucceeds ==
    [][(/\ last'.op = "enroll_student"
        /\ find_student(last'.args[1]) # NotFound
        /\ find_course(last'.args[2]) # NotFound)
       => LET s == find_student(last'.args[1])
              c == find_course(last'.args[2])
          IN  /\ last'.err = None
              /\ Len(enrollments') = Len(enrollments) + 1
              /\ SubSeq(enrollments', 1, Len(enrollments)) = enrollments
              /\ enrollment_objs'[enrollments'[Len(enrollments')]].student = s
              /\ enrollment_objs'[enrollments'[Len(enrollments')]].course = c
              /\ s \in Range(enrolled_students'[c])
              /\ c \in DOMAIN st_courses'[s]]_vars

\* C3: Course.add_student(S) on a course C that S is not in leaves S exactly
\* once in C.enrolled_students and C a key of S.courses, with grade None when C
\* was not a key before.
C3_AddStudentLinksOnce ==
    [][(/\ last'.op = "Course.add_student"
        /\ last'.args[2] \notin Range(enrolled_students[last'.args[1]]))
       => LET c == last'.args[1]
              s == last'.args[2]
          IN  /\ last'.err = None
              /\ Count(enrolled_students'[c], s) = 1
              /\ c \in DOMAIN st_courses'[s]
              /\ (c \notin DOMAIN st_courses[s] => st_courses'[s][c] = None)]_vars

C3_Witness ==
    /\ last.op = "Course.add_student"
    /\ last.err = None
    /\ Count(enrolled_students[last.args[1]], last.args[2]) = 1
    /\ Len(enrolled_students[last.args[1]]) = 2
    /\ st_courses[last.args[2]][last.args[1]] = None

\* C4: Course.add_student(S) with S already in enrolled_students raises
\* DuplicateEnrollment, leaves enrolled_students and S.courses as they were
\* and constructs no Enrollment.
C4_DuplicateRejected ==
    [][(/\ last'.op = "Course.add_student"
        /\ last'.args[2] \in Range(enrolled_students[last'.args[1]]))
       => /\ last'.err = DuplicateEnrollment
          /\ UNCHANGED <<enrolled_students, st_courses, enrollment_objs, enrollments>>]_vars

C4_Witness ==
    /\ last.op = "Course.add_student"
    /\ last.err = DuplicateEnrollment
    /\ last.args[2] \in Range(enrolled_students[last.args[1]])

\* The grades the specification allows.
ValidGrades == {"A", "B", "C", "D", "E", "F"}

\* What C5 says of a call that assigns grade g to the live Enrollment e.
GradeAssigned(e, g) ==
    LET s == enrollment_objs[e].student
        c == enrollment_objs[e].course
    IN  IF g \in ValidGrades
        THEN /\ last'.err = None
             /\ enrollment_objs'[e].grade = g
             /\ c \in DOMAIN st_courses'[s]
             /\ st_courses'[s][c] = g
        ELSE /\ last'.err = InvalidGrade
             /\ enrollment_objs'[e].grade = enrollment_objs[e].grade
             /\ st_courses'[s] = st_courses[s]

\* C5: Enrollment.assign_grade(g), and the registry's assign_grade for a
\* recorded enrollment, set the Enrollment's grade and student.courses[course]
\* to g when g is one of A..F, and otherwise raise InvalidGrade and leave both
\* at their prior values.
C5_AssignGrade ==
    [][/\ (last'.op = "Enrollment.assign_grade"
              => GradeAssigned(last'.args[1], last'.args[2]))
       /\ (last'.op = "assign_grade"
              /\ find_enrollment(last'.args[1], last'.args[2]) # NotFound
              => GradeAssigned(find_enrollment(last'.args[1], last'.args[2]),
                               last'.args[3]))]_vars

\* A valid grade was assigned, then an invalid one was refused.
C5_Witness ==
    /\ last.op = "Enrollment.assign_grade"
    /\ last.err = InvalidGrade
    /\ enrollment_objs[last.args[1]].grade = "F"
    /\ st_courses[enrollment_objs[last.args[1]].student]
                 [enrollment_objs[last.args[1]].course] = "F"

C6_WitnessNotFound ==
    /\ last.op = "find_student"
    /\ last.err = NotFound
    /\ students # <<>>

\* Whether a call of the registry operation op with these arguments, made in
\* the current state, passes an ID that resolves to no registered entity.
Unresolved(op, args) ==
    CASE op \in {"remove_student", "update_student", "student_courses"}
             -> ~HasId(students, args[1])
      [] op \in {"remove_instructor", "update_instructor"}
             -> ~HasId(instructors, args[1])
      [] op \in {"remove_course", "update_course", "students_in_course"}
             -> \A i \in 1..Len(courses) : course_id[courses[i]] # args[1]
      [] op = "enroll_student"
             -> \/ ~HasId(students, args[1])
                \/ \A i \in 1..Len(courses) : course_id[courses[i]] # args[2]
      [] op = "assign_grade"
             -> \A i \in 1..Len(enrollments) :
                    \/ id_number[enrollment_objs[enrollments[i]].student] # args[2]
                    \/ course_id[enrollment_objs[enrollments[i]].course] # args[1]
      [] OTHER -> FALSE

\* C7: every registry operation built on a find, called with an ID that
\* resolves to no registered entity, raises NotFound and changes nothing.
C7_NotFoundPropagates ==
    [][Unresolved(last'.op, last'.args) => (last'.err = NotFound /\ UNCHANGED heap)]_vars

\* What C8 says of every call of Course.remove_student: with the ID present
\* the list gets one shorter, with the ID absent nothing changes and nothing
\* is raised.
RemoveStudentStep ==
    LET c == last'.args[1]
        id == last'.args[2]
    IN  /\ last'.err = None
        /\ HasId(enrolled_students[c], id)
               => Len(enrolled_students'[c]) = Len(enrolled_students[c]) - 1
        /\ ~HasId(enrolled_students[c], id) => UNCHANGED heap

\* C8 as stated: in addition, a second remove_student(id) after a removal
\* leaves the list as the first call left it.
C8_Original ==
    [][last'.op = "Course.remove_student"
       => /\ RemoveStudentStep
          /\ HasId(enrolled_students[last'.args[1]], last'.args[2])
                 => remove_student_from(enrolled_students'[last'.args[1]], last'.args[2])
                        = enrolled_students'[last'.args[1]]]_vars

\* C8 as amended: the second call changes nothing when the first call left
\* no entry with that ID in the list.
C8_RemoveStudent ==
    [][last'.op = "Course.remove_student"
       => /\ RemoveStudentStep
          /\ (/\ HasId(enrolled_students[last'.args[1]], last'.args[2])
              /\ ~HasId(enrolled_students'[last'.args[1]], last'.args[2]))
                 => remove_student_from(enrolled_students'[last'.args[1]], last'.args[2])
                        = enrolled_students'[last'.args[1]]]_vars

\* After three calls, the last a remove_student(id): no entry of the list
\* carries the ID, and a Student with the ID has been enrolled in the Course.
C8_Witness ==
    /\ last.op = "Course.remove_student"
    /\ ops = 3
    /\ ~HasId(enrolled_students[last.args[1]], last.args[2])
    /\ \E s \in StudentObjs :
           /\ id_number[s] = last.args[2]
           /\ last.args[1] \in DOMAIN st_courses[s]

\* No Student is twice in any Course's list.
NoDuplicates ==
    \A c \in CourseObjs, s \in StudentObjs : Count(enrolled_students[c], s) <= 1

\* new is old with a Student not in old appended, or old with one entry
\* taken out, or old itself: the entries kept stay in their order.
OrderKept(old, new) ==
    \/ new = old
    \/ \E s \in StudentObjs : s \notin Range(old) /\ new = Append(old, s)
    \/ \E i \in 1..Len(old) : new = RemoveAt(old, i)

C10_NoCascade ==
    [][/\ last'.op = "remove_student" /\ find_student(last'.args[1]) # NotFound
          => /\ \E i \in 1..Len(students) :
                    /\ students[i] = find_student(last'.args[1])
                    /\ students' = RemoveAt(students, i)
             /\ find_student(last'.args[1]) \notin Range(students')
             /\ UNCHANGED <<fields, enrollment_objs, instructors, courses, enrollments>>
       /\ last'.op = "remove_course" /\ find_course(last'.args[1]) # NotFound
          => /\ \E i \in 1..Len(courses) :
                    /\ courses[i] = find_course(last'.args[1])
                    /\ courses' = RemoveAt(courses, i)
             /\ find_course(last'.args[1]) \notin Range(courses')
             /\ UNCHANGED <<fields, enrollment_objs, students, instructors, enrollments>>]_vars

\* A Student removed from the registry is still in a Course's list, and the
\* Course is still a key of the Student's courses.
C10_Witness ==
    /\ last.op = "remove_student"
    /\ last.err = None
    /\ \E s \in StudentObjs, c \in CourseObjs :
           /\ id_number[s] = last.args[1]
           /\ s \notin Range(students)
           /\ s \in Range(enrolled_students[c])
           /\ c \in DOMAIN st_courses[s]

\* The collection a registry add_X call appends to.
AddTarget(op) ==
    CASE op = "add_student" -> students
      [] op = "add_instructor" -> instructors
      [] op = "add_course" -> courses

\* No object is twice in students, instructors or courses.
RegistryNoDuplicates ==
    /\ \A s \in StudentObjs : Count(students, s) <= 1
    /\ \A i \in InstructorObjs : Count(instructors, i) <= 1
    /\ \A c \in CourseObjs : Count(courses, c) <= 1

\* C11: the registry's add_student / add_instructor / add_course raise
\* nothing, append the object when it is not in the collection and change
\* nothing when it is; and after any calls no object is twice in students,
\* instructors or courses.
C11_AddOnce ==
    [][/\ \A op \in {"add_student", "add_instructor", "add_course"} :
              last'.op = op
              => /\ last'.err = None
                 /\ UNCHANGED <<fields, enrollment_objs, enrollments>>
                 /\ IF last'.args[1] \in Range(AddTarget(op))
                    THEN UNCHANGED registry
                    ELSE /\ AddTarget(op)' = Append(AddTarget(op), last'.args[1])
                         /\ \A other \in {"add_student", "add_instructor", "add_course"} \ {op} :
                                AddTarget(other)' = AddTarget(other)
       /\ RegistryNoDuplicates']_vars

\* The third call adds st1 again: st1 is still first, with st3 behind it, so
\* the call appended nothing.
C11_Witness ==
    /\ ops = 3
    /\ last.op = "add_student"
    /\ last.args = <<"st1">>
    /\ last.err = None
    /\ students = <<"st1", "st3">>

====
